---- MODULE Spec2Model ----
(***************************************************************************)
(* AppointmentForm.jsx: the appointment-booking form of the patient        *)
(* frontend.  The component's React state, the mount-time doctor-list      *)
(* fetch, the form's event handlers, the submit handler with its in-flight *)
(* POST requests, and the rendered department / doctor selectors.          *)
(*                                                                         *)
(* JavaScript strings are sequences of one-character strings, so that      *)
(* String.prototype.split and template literals are computed, not assumed. *)
(* The JavaScript value `undefined`, where a string is expected, is the    *)
(* one-element sequence Undefined, which is no sequence of characters.     *)
(***************************************************************************)
EXTENDS Integers, Sequences, FiniteSets, TLC

VARIABLES
    firstName, lastName, email, phone, aadhar, dob, gender,
    appointmentDate, department, doctorFirstName, doctorLastName,
    address, hasVisited,          \* the thirteen useState form fields
    doctors, departments,         \* the fetched list and the derived list
    status,                       \* "initial" | "mounted" | "crashed"
    fetchState, fetchCount,       \* the GET issued by the mount effect
    pending, postCount,           \* POSTs in flight, POSTs issued so far
    fetchErrorToasts,             \* calls of toast.error by fetchDoctors
    view,                         \* the last committed render output
    edits,                        \* number of plain-field edit events
    ev                            \* the last event handled

plainVars == <<firstName, lastName, email, phone, aadhar, dob, gender,
               appointmentDate, address, hasVisited>>
doctorVars == <<department, doctorFirstName, doctorLastName>>
formVars == <<plainVars, doctorVars>>
listVars == <<doctors, departments>>
netVars == <<fetchState, fetchCount, pending, postCount>>
vars == <<formVars, listVars, status, netVars, fetchErrorToasts, view, edits,
          ev>>

----------------------------------------------------------------------------
(* Bounds of the exploration *)
MaxEdits == 2
MaxSubmits == 2

----------------------------------------------------------------------------
(* JavaScript values *)

EmptyStr == <<>>
Space == " "
Undefined == <<"undefined">>

\* JavaScript truthiness of a value that is a string or undefined
Truthy(s) == s # Undefined /\ s # EmptyStr

\* variant of ToastErrorText: the server's message is ignored
ToastErrorTextAlwaysGeneric(err) == "Something went wrong"

\* the `||` of line 84 on plain message texts: "" is falsy
ToastErrorText(err) ==
    IF err.hasMessage /\ err.message # "" THEN err.message
    ELSE "Something went wrong"

\* the array held by a useState slot that should hold an array
Arr(items) == [isArray |-> TRUE, items |-> items]
NotArray == [isArray |-> FALSE, items |-> <<>>]

\* index of the first occurrence of c in s, 0 if none
RECURSIVE IndexOf(_, _, _)
IndexOf(s, c, from) ==
    IF from > Len(s) THEN 0
    ELSE IF s[from] = c THEN from
    ELSE IndexOf(s, c, from + 1)

\* String.prototype.split(" "): cuts at EVERY space, "" gives [""]
RECURSIVE Split(_)
Split(s) ==
    LET i == IndexOf(s, Space, 1) IN
    IF i = 0 THEN <<s>>
    ELSE <<SubSeq(s, 1, i - 1)>> \o Split(SubSeq(s, i + 1, Len(s)))

\* array destructuring: a missing element is undefined
Element(parts, k) == IF k <= Len(parts) THEN parts[k] ELSE Undefined

\* const [fName, lName] = e.target.value.split(" ")
SplitDoctor(value) ==
    LET parts == Split(value) IN
    [fName |-> Element(parts, 1), lName |-> Element(parts, 2)]

\* the template literal `${a} ${b}`
Template(a, b) == a \o <<Space>> \o b

----------------------------------------------------------------------------
(* Data the two endpoints can send *)

Jane == <<"J", "a", "n", "e">>
Doe == <<"D", "o", "e">>
Mary == <<"M", "a", "r", "y">>
AnnSmith == <<"A", "n", "n", " ", "S", "m", "i", "t", "h">>
John == <<"J", "o", "h", "n">>
Roe == <<"R", "o", "e">>
Cardio == <<"C", "a", "r", "d", "i", "o">>
Neuro == <<"N", "e", "u", "r", "o">>

Doctor(f, l, d) == [firstName |-> f, lastName |-> l, doctrDptmnt |-> d]

\* bodies of GET /api/v1/user/doctors that carry a doctors array
DoctorLists ==
    { <<>>,
      <<Doctor(Jane, Doe, Cardio), Doctor(John, Roe, Neuro)>>,
      <<Doctor(Jane, Doe, Cardio), Doctor(John, Roe, Neuro),
        Doctor(Mary, AnnSmith, Cardio)>> }

\* bodies of a resolved GET without a usable doctors array
BadDoctorBodies == {"noData", "noDoctorsField"}

\* data.message of a resolved POST
SuccessMessages == {"Appointment sent!", "Appointment booked"}

\* what a rejected POST carries in error.response?.data?.message
SubmitErrors ==
    { [hasMessage |-> FALSE, message |-> ""],
      [hasMessage |-> TRUE, message |-> ""],
      [hasMessage |-> TRUE, message |-> "Doctor not available"] }

\* what the user can type or pick in the plain inputs
TextValues == {EmptyStr, <<"x">>}
NumberValues == {EmptyStr, <<"9">>}
DateValues == {EmptyStr, <<"2", "0", "2", "5", "-", "0", "1", "-", "0", "1">>}
GenderValues ==
    { EmptyStr, <<"M", "a", "l", "e">>, <<"F", "e", "m", "a", "l", "e">>,
      <<"O", "t", "h", "e", "r", "s">> }

----------------------------------------------------------------------------
(* Render *)

\* variant of FilterDoctors: the department filter is left out
FilterDoctorsUnfiltered(docs, dept) == docs

\* Array.prototype.filter(doc => doc.doctrDptmnt === department)
RECURSIVE FilterDoctors(_, _)
FilterDoctors(docs, dept) ==
    IF docs = <<>> THEN <<>>
    ELSE IF Head(docs).doctrDptmnt = dept
         THEN <<Head(docs)>> \o FilterDoctors(Tail(docs), dept)
         ELSE FilterDoctors(Tail(docs), dept)

\* value of a doctor <option>
OptionValue(doc) == Template(doc.firstName, doc.lastName)

\* the <option> values of the doctor <select>, placeholder first
DoctorOptions(docs, dept) ==
    LET shown == FilterDoctors(docs, dept) IN
    <<EmptyStr>> \o [i \in 1..Len(shown) |-> OptionValue(shown[i])]

\* the <option> values of the department <select>, placeholder first
DepartmentOptions(depts) == <<EmptyStr>> \o depts

\* value prop of the doctor <select>
DoctorSelectValue(fName, lName) ==
    IF Truthy(fName) /\ Truthy(lName) THEN Template(fName, lName)
    ELSE EmptyStr

\* disabled prop of the doctor <select>
DoctorDisabled(dept) == ~Truthy(dept)

NoView ==
    [rendered |-> FALSE, departmentOptions |-> <<>>, doctorOptions |-> <<>>,
     doctorValue |-> EmptyStr, doctorDisabled |-> FALSE]

\* the component function's return value; doctors.filter throws when the
\* doctors slot holds no array, and React then unmounts the component
Render(docs, depts, dept, fName, lName) ==
    IF ~docs.isArray THEN NoView
    ELSE [rendered |-> TRUE,
          departmentOptions |-> DepartmentOptions(depts),
          doctorOptions |-> DoctorOptions(docs.items, dept),
          doctorValue |-> DoctorSelectValue(fName, lName),
          doctorDisabled |-> DoctorDisabled(dept)]

\* re-render after a state update
Rerender ==
    /\ view' = IF status' = "mounted"
               THEN Render(doctors', departments', department',
                           doctorFirstName', doctorLastName')
               ELSE NoView

Range(s) == {s[i] : i \in 1..Len(s)}

\* the option the browser shows as selected in the doctor <select>: the
\* option equal to the value prop, else the first option
DomSelectedDoctor(v) ==
    IF v.doctorValue \in Range(v.doctorOptions) THEN v.doctorValue
    ELSE EmptyStr

\* an event record: what was handled (kind, the value or message it came
\* with) and what the handler sent out (the POST body handed to axios, the
\* toasts shown)
Event(kind, value, msg, body, shown) ==
    [kind |-> kind, value |-> value, msg |-> msg, body |-> body,
     toasts |-> shown]

NoBody == <<>>
NoToast == <<>>

----------------------------------------------------------------------------
(* Construction *)

Init ==
    /\ firstName = EmptyStr /\ lastName = EmptyStr /\ email = EmptyStr
    /\ phone = EmptyStr /\ aadhar = EmptyStr /\ dob = EmptyStr
    /\ gender = EmptyStr /\ appointmentDate = EmptyStr
    /\ department = EmptyStr
    /\ doctorFirstName = EmptyStr /\ doctorLastName = EmptyStr
    /\ address = EmptyStr /\ hasVisited = FALSE
    /\ doctors = Arr(<<>>) /\ departments = <<>>
    /\ status = "initial"
    /\ fetchState = "notIssued" /\ fetchCount = 0
    /\ pending = 0 /\ postCount = 0
    /\ fetchErrorToasts = 0
    /\ view = NoView
    /\ edits = 0
    /\ ev = Event("init", EmptyStr, "", NoBody, NoToast)

\* first render, then the useEffect with [] dependencies runs fetchDoctors
Mount ==
    /\ status = "initial"
    /\ status' = "mounted"
    /\ fetchState' = "pending"
    /\ fetchCount' = fetchCount + 1
    /\ ev' = Event("mount", EmptyStr, "", NoBody, NoToast)
    /\ UNCHANGED <<formVars, listVars, pending, postCount, fetchErrorToasts,
                   edits>>
    /\ Rerender

----------------------------------------------------------------------------
(* The mount-time fetch: fetchDoctors *)

\* [...new Set(list)]: the distinct elements in first-seen order
RECURSIVE Unique(_, _)
Unique(s, seen) ==
    IF s = <<>> THEN <<>>
    ELSE IF Head(s) \in seen THEN Unique(Tail(s), seen)
    ELSE <<Head(s)>> \o Unique(Tail(s), seen \cup {Head(s)})

\* [...new Set(data.doctors.map(doc => doc.doctrDptmnt))]
UniqueDepts(list) == Unique([i \in 1..Len(list) |-> list[i].doctrDptmnt], {})

\* a render that throws unmounts the component
StatusAfterRender(docs) == IF docs.isArray THEN "mounted" ELSE "crashed"

FetchErrorToast == [type |-> "error", text |-> "Failed to load doctors list"]

\* the GET resolves with { doctors: list }
FetchDoctorsOk(list) ==
    /\ fetchState = "pending"
    /\ doctors' = Arr(list)
    /\ departments' = UniqueDepts(list)
    /\ fetchState' = "loaded"
    /\ status' = StatusAfterRender(doctors')
    /\ ev' = Event("fetchOk", EmptyStr, "", NoBody, NoToast)
    /\ UNCHANGED <<formVars, fetchCount, pending, postCount, fetchErrorToasts,
                   edits>>
    /\ Rerender

\* the GET resolves, but data is missing ("noData": data.doctors throws) or
\* has no doctors field ("noDoctorsField": setDoctors(undefined) is called
\* before data.doctors.map throws); the catch block shows the toast
FetchDoctorsBadBody(body) ==
    /\ fetchState = "pending"
    /\ doctors' = IF body = "noDoctorsField" THEN NotArray ELSE doctors
    /\ fetchErrorToasts' = fetchErrorToasts + 1
    /\ fetchState' = "failed"
    /\ status' = StatusAfterRender(doctors')
    /\ ev' = Event("fetchFailed", EmptyStr, body, NoBody, <<FetchErrorToast>>)
    /\ UNCHANGED <<formVars, departments, fetchCount, pending, postCount,
                   edits>>
    /\ Rerender

\* variant of FetchDoctorsRejected: the catch block issues the GET again
FetchDoctorsRejectedRetries ==
    /\ fetchState = "pending"
    /\ fetchErrorToasts' = fetchErrorToasts + 1
    /\ fetchState' = "pending"
    /\ fetchCount' = fetchCount + 1
    /\ ev' = Event("fetchFailed", EmptyStr, "rejected", NoBody,
                   <<FetchErrorToast>>)
    /\ UNCHANGED <<formVars, listVars, status, pending, postCount, edits>>
    /\ Rerender

\* the GET rejects (network error, HTTP error status)
FetchDoctorsRejected ==
    /\ fetchState = "pending"
    /\ fetchErrorToasts' = fetchErrorToasts + 1
    /\ fetchState' = "failed"
    /\ ev' = Event("fetchFailed", EmptyStr, "rejected", NoBody,
                   <<FetchErrorToast>>)
    /\ UNCHANGED <<formVars, listVars, status, fetchCount, pending,
                   postCount, edits>>
    /\ Rerender

----------------------------------------------------------------------------
(* The plain inputs: each onChange fires when the input's value changes and
   sets exactly one field *)

EditFrame ==
    /\ status = "mounted"
    /\ edits < MaxEdits
    /\ edits' = edits + 1
    /\ UNCHANGED <<doctorVars, listVars, status, netVars, fetchErrorToasts>>

SetFirstName(v) ==
    /\ EditFrame
    /\ v # firstName
    /\ firstName' = v
    /\ ev' = Event("firstName", v, "", NoBody, NoToast)
    /\ UNCHANGED <<lastName, email, phone, aadhar, dob,
                   gender, appointmentDate, address, hasVisited>>
    /\ Rerender

SetLastName(v) ==
    /\ EditFrame
    /\ v # lastName
    /\ lastName' = v
    /\ ev' = Event("lastName", v, "", NoBody, NoToast)
    /\ UNCHANGED <<firstName, email, phone, aadhar, dob,
                   gender, appointmentDate, address, hasVisited>>
    /\ Rerender

SetEmail(v) ==
    /\ EditFrame
    /\ v # email
    /\ email' = v
    /\ ev' = Event("email", v, "", NoBody, NoToast)
    /\ UNCHANGED <<firstName, lastName, phone, aadhar, dob,
                   gender, appointmentDate, address, hasVisited>>
    /\ Rerender

SetPhone(v) ==
    /\ EditFrame
    /\ v # phone
    /\ phone' = v
    /\ ev' = Event("phone", v, "", NoBody, NoToast)
    /\ UNCHANGED <<firstName, lastName, email, aadhar, dob,
                   gender, appointmentDate, address, hasVisited>>
    /\ Rerender

SetAadhar(v) ==
    /\ EditFrame
    /\ v # aadhar
    /\ aadhar' = v
    /\ ev' = Event("aadhar", v, "", NoBody, NoToast)
    /\ UNCHANGED <<firstName, lastName, email, phone, dob,
                   gender, appointmentDate, address, hasVisited>>
    /\ Rerender

SetDob(v) ==
    /\ EditFrame
    /\ v # dob
    /\ dob' = v
    /\ ev' = Event("dob", v, "", NoBody, NoToast)
    /\ UNCHANGED <<firstName, lastName, email, phone, aadhar,
                   gender, appointmentDate, address, hasVisited>>
    /\ Rerender

SetGender(v) ==
    /\ EditFrame
    /\ v # gender
    /\ gender' = v
    /\ ev' = Event("gender", v, "", NoBody, NoToast)
    /\ UNCHANGED <<firstName, lastName, email, phone, aadhar,
                   dob, appointmentDate, address, hasVisited>>
    /\ Rerender

SetAppointmentDate(v) ==
    /\ EditFrame
    /\ v # appointmentDate
    /\ appointmentDate' = v
    /\ ev' = Event("appointmentDate", v, "", NoBody, NoToast)
    /\ UNCHANGED <<firstName, lastName, email, phone, aadhar,
                   dob, gender, address, hasVisited>>
    /\ Rerender

SetAddress(v) ==
    /\ EditFrame
    /\ v # address
    /\ address' = v
    /\ ev' = Event("address", v, "", NoBody, NoToast)
    /\ UNCHANGED <<firstName, lastName, email, phone, aadhar,
                   dob, gender, appointmentDate, hasVisited>>
    /\ Rerender

SetHasVisited(v) ==
    /\ EditFrame
    /\ v # hasVisited
    /\ hasVisited' = v
    /\ ev' = Event("hasVisited", EmptyStr, IF v THEN "true" ELSE "false",
                   NoBody, NoToast)
    /\ UNCHANGED <<firstName, lastName, email, phone, aadhar,
                   dob, gender, appointmentDate, address>>
    /\ Rerender

----------------------------------------------------------------------------
(* The two coupled selectors *)

\* variant of SelectDepartment: setDoctorLastName("") is left out
SelectDepartmentKeepsLastName(v) ==
    /\ status = "mounted"
    /\ v \in Range(view.departmentOptions)
    /\ department' = v
    /\ doctorFirstName' = EmptyStr
    /\ ev' = Event("department", v, "", NoBody, NoToast)
    /\ UNCHANGED <<plainVars, doctorLastName, listVars, status, netVars,
                   fetchErrorToasts, edits>>
    /\ Rerender

\* department <select> onChange, with the value of any of its options
SelectDepartment(v) ==
    /\ status = "mounted"
    /\ v \in Range(view.departmentOptions)
    /\ department' = v
    /\ doctorFirstName' = EmptyStr
    /\ doctorLastName' = EmptyStr
    /\ ev' = Event("department", v, "", NoBody, NoToast)
    /\ UNCHANGED <<plainVars, listVars, status, netVars, fetchErrorToasts,
                   edits>>
    /\ Rerender

\* doctor <select> onChange: fired by an enabled selector when the user
\* picks an option other than the one shown as selected
SelectDoctor(v) ==
    /\ status = "mounted"
    /\ ~view.doctorDisabled
    /\ v \in Range(view.doctorOptions)
    /\ v # DomSelectedDoctor(view)
    /\ doctorFirstName' = SplitDoctor(v).fName
    /\ doctorLastName' = SplitDoctor(v).lName
    /\ ev' = Event("doctor", v, "", NoBody, NoToast)
    /\ UNCHANGED <<plainVars, department, listVars, status, netVars,
                   fetchErrorToasts, edits>>
    /\ Rerender

----------------------------------------------------------------------------
(* Submission: handleAppointment *)

\* variant of RequestBody: appointment_date is taken from dob
RequestBodyWrongDate ==
    [firstName |-> firstName, lastName |-> lastName, email |-> email,
     phone |-> phone, aadhar |-> aadhar, dob |-> dob, gender |-> gender,
     appointment_date |-> dob,
     department |-> department,
     doctor_firstName |-> doctorFirstName,
     doctor_lastName |-> doctorLastName,
     hasVisited |-> hasVisited,
     address |-> address]

\* the object handed to axios.post, built from the fields of the render
\* whose handler received the submit event
RequestBody ==
    [firstName |-> firstName, lastName |-> lastName, email |-> email,
     phone |-> phone, aadhar |-> aadhar, dob |-> dob, gender |-> gender,
     appointment_date |-> appointmentDate,
     department |-> department,
     doctor_firstName |-> doctorFirstName,
     doctor_lastName |-> doctorLastName,
     hasVisited |-> hasVisited,
     address |-> address]

\* form onSubmit, up to the await of axios.post
Submit ==
    /\ status = "mounted"
    /\ postCount < MaxSubmits
    /\ postCount' = postCount + 1
    /\ pending' = pending + 1
    /\ ev' = Event("submit", EmptyStr, "", RequestBody, NoToast)
    /\ UNCHANGED <<formVars, listVars, status, fetchState, fetchCount,
                   fetchErrorToasts, edits>>
    /\ Rerender

\* variant of ResetForm: setDepartment("") is left out
ResetFormKeepsDepartment ==
    /\ firstName' = EmptyStr
    /\ lastName' = EmptyStr
    /\ email' = EmptyStr
    /\ phone' = EmptyStr
    /\ aadhar' = EmptyStr
    /\ dob' = EmptyStr
    /\ gender' = EmptyStr
    /\ appointmentDate' = EmptyStr
    /\ department' = department
    /\ doctorFirstName' = EmptyStr
    /\ doctorLastName' = EmptyStr
    /\ hasVisited' = FALSE
    /\ address' = EmptyStr

\* the thirteen setters of lines 70-82
ResetForm ==
    /\ firstName' = EmptyStr
    /\ lastName' = EmptyStr
    /\ email' = EmptyStr
    /\ phone' = EmptyStr
    /\ aadhar' = EmptyStr
    /\ dob' = EmptyStr
    /\ gender' = EmptyStr
    /\ appointmentDate' = EmptyStr
    /\ department' = EmptyStr
    /\ doctorFirstName' = EmptyStr
    /\ doctorLastName' = EmptyStr
    /\ hasVisited' = FALSE
    /\ address' = EmptyStr

\* a POST in flight resolves with { message: m }; the setters of an
\* unmounted component do nothing
SubmitOk(m) ==
    /\ pending > 0
    /\ pending' = pending - 1
    /\ IF status = "mounted" THEN ResetForm ELSE UNCHANGED formVars
    /\ ev' = Event("submitOk", EmptyStr, m, NoBody,
                   <<[type |-> "success", text |-> m]>>)
    /\ UNCHANGED <<listVars, status, fetchState, fetchCount, postCount,
                   fetchErrorToasts, edits>>
    /\ Rerender

\* a POST in flight rejects with error err: the catch block
SubmitFailed(err) ==
    /\ pending > 0
    /\ pending' = pending - 1
    /\ ev' = Event("submitFailed", EmptyStr,
                   IF err.hasMessage THEN err.message ELSE "<none>", NoBody,
                   <<[type |-> "error", text |-> ToastErrorText(err)]>>)
    /\ UNCHANGED <<formVars, listVars, status, fetchState, fetchCount,
                   postCount, fetchErrorToasts, edits>>
    /\ Rerender

----------------------------------------------------------------------------
Next ==
    \/ Mount
    \/ \E list \in DoctorLists : FetchDoctorsOk(list)
    \/ \E body \in BadDoctorBodies : FetchDoctorsBadBody(body)
    \/ FetchDoctorsRejected
    \/ \E v \in TextValues : SetFirstName(v)
    \/ \E v \in TextValues : SetLastName(v)
    \/ \E v \in TextValues : SetEmail(v)
    \/ \E v \in NumberValues : SetPhone(v)
    \/ \E v \in NumberValues : SetAadhar(v)
    \/ \E v \in DateValues : SetDob(v)
    \/ \E v \in GenderValues : SetGender(v)
    \/ \E v \in DateValues : SetAppointmentDate(v)
    \/ \E v \in TextValues : SetAddress(v)
    \/ \E v \in BOOLEAN : SetHasVisited(v)
    \/ \E v \in Range(view.departmentOptions) : SelectDepartment(v)
    \/ \E v \in Range(view.doctorOptions) : SelectDoctor(v)
    \/ Submit
    \/ \E m \in SuccessMessages : SubmitOk(m)
    \/ \E err \in SubmitErrors : SubmitFailed(err)

Spec == Init /\ [][Next]_vars

----------------------------------------------------------------------------
(* Vocabulary of the properties *)

\* index of the first space of s, 0 if it has none
FirstSpace(s) ==
    IF \E i \in 1..Len(s) : s[i] = Space
    THEN CHOOSE i \in 1..Len(s) :
            s[i] = Space /\ \A j \in 1..(i - 1) : s[j] # Space
    ELSE 0

BeforeFirstSpace(s) == SubSeq(s, 1, FirstSpace(s) - 1)
AfterFirstSpace(s) == SubSeq(s, FirstSpace(s) + 1, Len(s))

\* all thirteen fields hold their useState initial values
FormIsInitial ==
    /\ \A f \in {firstName, lastName, email, phone, aadhar, dob, gender,
                 appointmentDate, department, doctorFirstName,
                 doctorLastName, address} : f = EmptyStr
    /\ hasVisited = FALSE

\* positions of the fetched doctors that belong to the current department
MatchingDoctors ==
    {i \in 1..Len(doctors.items) : doctors.items[i].doctrDptmnt = department}

\* a doctor is selected
DoctorSelected == Truthy(doctorFirstName) \/ Truthy(doctorLastName)

WireNames ==
    {"firstName", "lastName", "email", "phone", "aadhar", "dob", "gender",
     "appointment_date", "department", "doctor_firstName", "doctor_lastName",
     "hasVisited", "address"}

----------------------------------------------------------------------------
(* C1: selecting a doctor option "first last" splits at the first space
   only: doctorFirstName becomes the text before the first space of the
   option value and doctorLastName all the text after it. *)
C1_SplitsAtFirstSpaceOnly ==
    [][(ev'.kind = "doctor" /\ FirstSpace(ev'.value) > 0)
        => /\ doctorFirstName' = BeforeFirstSpace(ev'.value)
           /\ doctorLastName' = AfterFirstSpace(ev'.value)]_vars

(* C2: every department-selection event sets department to the chosen value
   and leaves both doctor-name fields empty, whatever doctor was selected
   before; no other form field, nor the doctor list or the department list,
   changes. *)
C2_DepartmentSelectionClearsDoctor ==
    [][ev'.kind = "department"
        => /\ department' = ev'.value
           /\ doctorFirstName' = EmptyStr
           /\ doctorLastName' = EmptyStr
           /\ plainVars' = plainVars
           /\ listVars' = listVars]_vars

\* a non-empty department has just been selected, the doctor fields are
\* empty and an edited plain field has kept its value
C2_Witness ==
    /\ ev.kind = "department"
    /\ ev.value = Neuro
    /\ department = Neuro
    /\ doctorFirstName = EmptyStr /\ doctorLastName = EmptyStr
    /\ firstName # EmptyStr
    /\ Len(departments) = 2

(* C3: when a POST resolves with {message: m}, one success notification
   with text m is shown and, in the mounted form, all thirteen fields end at
   their initial values, also when the user edited fields while the request
   was pending; the doctor list and the department list are not changed. *)
C3_SuccessResetsForm ==
    [][ev'.kind = "submitOk"
        => /\ ev'.toasts = <<[type |-> "success", text |-> ev'.msg]>>
           /\ ev'.msg \in SuccessMessages
           /\ listVars' = listVars
           /\ (status = "mounted" => FormIsInitial')]_vars

\* a success response has been handled after the user had edited fields,
\* with a doctor list loaded
C3_Witness ==
    /\ ev.kind = "submitOk"
    /\ ev.toasts = <<[type |-> "success", text |-> "Appointment sent!"]>>
    /\ status = "mounted"
    /\ FormIsInitial
    /\ edits = 2
    /\ Len(doctors.items) = 3
    /\ Len(departments) = 2

(* C4: when a POST fails, exactly one error notification is shown, with the
   server-provided message text if the error carries one and "Something
   went wrong" otherwise (an empty text counts as none), and no form field
   changes. *)
C4_FailureKeepsForm ==
    [][ev'.kind = "submitFailed"
        => /\ Len(ev'.toasts) = 1
           /\ ev'.toasts[1].type = "error"
           /\ ev'.toasts[1].text =
                 IF ev'.msg \in {"<none>", ""} THEN "Something went wrong"
                 ELSE ev'.msg
           /\ formVars' = formVars]_vars

\* a failure without a message has been handled; the user's data, a doctor
\* included, is still in the form and another submit is possible
C4_Witness ==
    /\ ev.kind = "submitFailed"
    /\ ev.msg = "<none>"
    /\ firstName # EmptyStr
    /\ doctorFirstName = Jane /\ doctorLastName = Doe
    /\ postCount < MaxSubmits

(* C5: each submit event issues exactly one POST, whose body carries the
   thirteen fields with the values they have at the submit event under the
   wire names; no other event issues a POST (no retry on failure). *)
C5_OnePostPerSubmit ==
    [][/\ ev'.kind = "submit"
          => /\ postCount' = postCount + 1
             /\ pending' = pending + 1
             /\ DOMAIN ev'.body = WireNames
             /\ ev'.body.firstName = firstName
             /\ ev'.body.lastName = lastName
             /\ ev'.body.email = email
             /\ ev'.body.phone = phone
             /\ ev'.body.aadhar = aadhar
             /\ ev'.body.dob = dob
             /\ ev'.body.gender = gender
             /\ ev'.body.appointment_date = appointmentDate
             /\ ev'.body.department = department
             /\ ev'.body.doctor_firstName = doctorFirstName
             /\ ev'.body.doctor_lastName = doctorLastName
             /\ ev'.body.hasVisited = hasVisited
             /\ ev'.body.address = address
             /\ formVars' = formVars
       /\ ev'.kind # "submit"
          => /\ postCount' = postCount
             /\ pending' <= pending]_vars

\* the second submit of a form with a date, a visited flag and a doctor
C5_Witness ==
    /\ ev.kind = "submit"
    /\ postCount = 2
    /\ ev.body.appointment_date # EmptyStr
    /\ ev.body.hasVisited = TRUE
    /\ ev.body.doctor_firstName = Jane
    /\ ev.body.doctor_lastName = Doe
    /\ ev.body.department = Cardio

(* C6: in every rendered state the doctor selector is disabled exactly when
   department is empty, and its doctor options are exactly the fetched
   doctors whose doctrDptmnt equals department, in fetch order; it is
   disabled right after mount and after every successful-submit reset. *)
C6_DoctorSelectorFollowsDepartment ==
    view.rendered
    => /\ view.doctorDisabled <=> (department = EmptyStr)
       /\ Len(view.doctorOptions) = 1 + Cardinality(MatchingDoctors)
       /\ view.doctorOptions[1] = EmptyStr
       /\ \A i \in MatchingDoctors :
             view.doctorOptions[1 + Cardinality({j \in MatchingDoctors : j <= i})]
                = doctors.items[i].firstName \o <<" ">>
                     \o doctors.items[i].lastName
       /\ (ev.kind \in {"mount", "submitOk"} => view.doctorDisabled)

\* Cardio is selected and the selector offers its two doctors out of three
C6_Witness ==
    /\ view.rendered
    /\ department = Cardio
    /\ ~view.doctorDisabled
    /\ Len(doctors.items) = 3
    /\ view.doctorOptions = <<EmptyStr, Template(Jane, Doe),
                              Template(Mary, AnnSmith)>>

(* C7: neither error kind is fatal: after a failed doctor-list fetch
   (network failure, or a response without a usable doctors array) and
   after a failed submit the component is still rendered and interactive
   and the stored doctor list is still a list. *)
C7_ErrorsAreNotFatal ==
    (fetchState = "failed" \/ ev.kind = "submitFailed")
    => /\ doctors.isArray
       /\ status = "mounted"
       /\ view.rendered

(* C8: once the mount-time fetch has failed, for the rest of the mount and
   under every sequence of edits and submissions: the department list is
   empty, department is unset, the doctor selector is disabled, the fetch
   has been issued once and one fetch-error notification has been shown. *)
C8_FailedFetchDegradesForGood ==
    fetchState = "failed"
    => /\ departments = <<>>
       /\ department = EmptyStr
       /\ (status = "mounted"
           => /\ view.rendered
              /\ view.doctorDisabled
              /\ view.departmentOptions = <<EmptyStr>>)
       /\ fetchCount = 1
       /\ fetchErrorToasts = 1

\* the fetch failed and the form then went through edits and two
\* submissions, the last one successful
C8_Witness ==
    /\ fetchState = "failed"
    /\ status = "mounted"
    /\ edits = 2
    /\ postCount = 2
    /\ ev.kind = "submitOk"

(* C9: whenever a doctor is selected, department is set and some fetched
   doctor of that department has firstName = doctorFirstName and
   lastName = doctorLastName. *)
C9_SelectedDoctorBelongsToDepartment ==
    DoctorSelected
    => /\ department # EmptyStr
       /\ doctors.isArray
       /\ \E i \in MatchingDoctors :
             /\ doctors.items[i].firstName = doctorFirstName
             /\ doctors.items[i].lastName = doctorLastName

(* C10: doctorFirstName and doctorLastName always hold strings, never
   undefined, so every POST body has a defined doctor_firstName and
   doctor_lastName; picking the placeholder option of the enabled doctor
   selector leaves both fields empty. *)
C10_DoctorNamesAreStrings ==
    /\ doctorFirstName # Undefined
    /\ doctorLastName # Undefined
    /\ ev.kind = "submit"
       => /\ ev.body.doctor_firstName # Undefined
          /\ ev.body.doctor_lastName # Undefined
    /\ (ev.kind = "doctor" /\ ev.value = EmptyStr)
       => /\ doctorFirstName = EmptyStr
          /\ doctorLastName = EmptyStr

====
